---------------------------- MODULE Spec2Model ----------------------------
(***************************************************************************)
(* Model of the face tracking backend:                                     *)
(*   backend/tracker.py  CentroidTracker (register, deregister, update)    *)
(*   backend/vision.py   VisionSystem (process_frame, get_latest_data)     *)
(*   backend/main.py     the /video and /api/frame handlers                *)
(*                                                                         *)
(* A rect is <<x, y, w, h>>.  OrderedDict objects is a sequence of         *)
(* [id, rect] records in insertion order; disappeared is a function on its *)
(* keys, with dis_keys their insertion order.  Distances are compared      *)
(* through their squares, which orders and thresholds them exactly as      *)
(* numpy's float norm does on integers of this size.                       *)
(*                                                                         *)
(* The handlers run on several threads over one VisionSystem with no lock. *)
(* A step of the pipeline is the code a thread runs between two points at  *)
(* which CPython may hand the interpreter to another thread (the entry of  *)
(* a Python function, the return of a call of native code, the jump back   *)
(* of a loop), joined with the steps before it that touch no shared field. *)
(***************************************************************************)
EXTENDS Integers, Sequences, FiniteSets, TLC

VARIABLES
    next_object_id,   \* CentroidTracker.next_object_id
    objects,          \* CentroidTracker.objects, insertion ordered
    disappeared,      \* CentroidTracker.disappeared
    dis_keys,         \* keys of CentroidTracker.disappeared, insertion ordered
    rects,            \* SpecTracker: argument of the latest update call
    live_before,      \* SpecTracker: len(self.objects) on entry to that call
    matched,          \* SpecTracker: ids of the rows that call assigned
    cap_opened,       \* VisionSystem.cap.isOpened()
    frame_count,      \* VisionSystem.frame_count
    latest_data,      \* VisionSystem.latest_data
    logs,             \* lines appended to logs/emotions.jsonl, without ts
    published,        \* some process_frame call has assigned latest_data
    pc,               \* where each consumer stands
    ctx,              \* the call site a consumer entered process_frame from
    frame,            \* process_frame local: detections of the frame read
    snap_ids,         \* update local object_ids: the keys read at line 41
    plan,             \* update local: what is left of the call, as steps
    results,          \* process_frame local: the list being built
    it_keys,          \* keys of tracker.objects when the for loop began
    stale,            \* tracker.objects gained or lost a key since then
    cur,              \* process_frame local: the result of the pass under way
    tracked,          \* the mapping as it stood when tracker.update returned
    response          \* what each consumer's request last answered

tracker_vars == <<next_object_id, objects, disappeared, dis_keys, rects,
                  live_before, matched>>

vision_vars == <<cap_opened, frame_count, latest_data, logs, published>>

locals == <<frame, snap_ids, plan, results, it_keys, stale, cur, tracked>>

consumer_vars == <<pc, ctx, locals, response>>

vars == <<tracker_vars, vision_vars, consumer_vars>>

----------------------------------------------------------------------------
(* Configuration and bounds *)

max_disappeared == 2      \* constructor parameter (default 15), scaled down
max_distance == 80        \* constructor parameter, default 80.0
MaxDet == 2               \* most detections in one update call
MaxId == 5                \* ids handed out before the model stops registering
emotion_every == 2        \* constructor parameter (default 5), scaled down
MaxTicks == 2             \* ticks before the model stops reading frames
FrameW == 640             \* frame.shape[1]
FrameH == 480             \* frame.shape[0]

R1 == <<100, 100, 50, 50>>    \* centroid (125, 125)
R2 == <<105, 103, 50, 50>>    \* centroid (130, 128)
R3 == <<148, 164, 50, 50>>    \* centroid (173, 189): exactly 80 from R1
R6 == <<20, 100, 51, 51>>     \* centroid (45, 125): exactly 80 from R1

Rects == {R1, R2, R3, R6}

RectLists == UNION {[1..n -> Rects] : n \in 0..MaxDet}

----------------------------------------------------------------------------
(* CentroidTracker *)

\* F applied to the value of x, with x evaluated once
With(x, F(_)) == CHOOSE r \in {F(v) : v \in {x}} : TRUE

Self == [next_object_id |-> next_object_id, objects |-> objects,
         disappeared |-> disappeared]

Keys(objs) == [i \in 1..Len(objs) |-> objs[i].id]

KeySet(objs) == {objs[i].id : i \in 1..Len(objs)}

Values(objs) == [i \in 1..Len(objs) |-> objs[i].rect]

Item(objs, id) == objs[CHOOSE i \in 1..Len(objs) : objs[i].id = id].rect

\* objs[id] = rect on an OrderedDict: a present key keeps its position
SetItem(objs, id, rect) ==
    IF id \in KeySet(objs)
    THEN [i \in 1..Len(objs) |->
            IF objs[i].id = id THEN [id |-> id, rect |-> rect] ELSE objs[i]]
    ELSE Append(objs, [id |-> id, rect |-> rect])

\* objs.pop(id, None)
Pop(objs, id) == SelectSeq(objs, LAMBDA o : o.id # id)

\* register as it would be with the id taken from the number of live objects
RegisterByCount(self, rect) ==
    [next_object_id |-> self.next_object_id + 1,
     objects |-> SetItem(self.objects, Len(self.objects), rect),
     disappeared |-> [k \in DOMAIN self.disappeared \cup {Len(self.objects)} |->
                        IF k = Len(self.objects) THEN 0 ELSE self.disappeared[k]]]

register(self, rect) ==
    [next_object_id |-> self.next_object_id + 1,
     objects |-> SetItem(self.objects, self.next_object_id, rect),
     disappeared |-> [k \in DOMAIN self.disappeared \cup {self.next_object_id} |->
                        IF k = self.next_object_id THEN 0 ELSE self.disappeared[k]]]

deregister(self, object_id) ==
    [next_object_id |-> self.next_object_id,
     objects |-> Pop(self.objects, object_id),
     disappeared |-> [k \in DOMAIN self.disappeared \ {object_id} |->
                        self.disappeared[k]]]

\* the test as it would be one tick too late, and one tick too early
ExpiredLate(count) == count > max_disappeared + 1

ExpiredEarly(count) == count >= max_disappeared

\* self.disappeared[object_id] > self.max_disappeared
Expired(count) == count > max_disappeared

\* the ageing as it would be without the deregistration
MarkWithoutDrop(self, object_id) ==
    [self EXCEPT !.disappeared[object_id] = @ + 1]

\* disappeared[object_id] += 1, then deregister once the count passes the limit
MarkDisappeared(self, object_id) ==
    LET bumped == [self EXCEPT !.disappeared[object_id] = @ + 1]
    IN  IF Expired(bumped.disappeared[object_id])
        THEN deregister(bumped, object_id)
        ELSE bumped

RECURSIVE MarkAll(_, _)
MarkAll(self, ids) ==
    IF ids = <<>> THEN self
    ELSE With(MarkDisappeared(self, Head(ids)),
              LAMBDA v : MarkAll(v, Tail(ids)))

\* the registration loop as it would be walking the detections backwards
RECURSIVE RegisterAllReversed(_, _)
RegisterAllReversed(self, rs) ==
    IF rs = <<>> THEN self
    ELSE With(register(self, rs[Len(rs)]),
              LAMBDA v : RegisterAllReversed(v, SubSeq(rs, 1, Len(rs) - 1)))

RECURSIVE RegisterAll(_, _)
RegisterAll(self, rs) ==
    IF rs = <<>> THEN self
    ELSE With(register(self, Head(rs)),
              LAMBDA v : RegisterAll(v, Tail(rs)))

\* int(v / 2): Python truncates toward zero
IntHalf(v) == IF v >= 0 THEN v \div 2 ELSE -((-v) \div 2)

\* int(x + w / 2) = int((2x + w) / 2)
Centroid(rect) == <<IntHalf(2 * rect[1] + rect[3]), IntHalf(2 * rect[2] + rect[4])>>

compute_centroids(rs) == [i \in 1..Len(rs) |-> Centroid(rs[i])]

\* square of the Euclidean norm of a - b
Dist2(a, b) == (a[1] - b[1]) * (a[1] - b[1]) + (a[2] - b[2]) * (a[2] - b[2])

pairwise_distances(a, b) ==
    [r \in 1..Len(a) |-> [c \in 1..Len(b) |-> Dist2(a[r], b[c])]]

SetMin(S) == CHOOSE m \in S : \A v \in S : m <= v

\* distances.min(axis=1)[r]
RowMin(distances, r) ==
    SetMin({distances[r][c] : c \in DOMAIN distances[r]})

\* distances.argmin(axis=1)[r]: the first column holding the minimum
ArgMin(distances, r) ==
    SetMin({c \in DOMAIN distances[r] :
              \A c2 \in DOMAIN distances[r] : distances[r][c] <= distances[r][c2]})

\* the orders in which a sort by mins may list the rows in S
RECURSIVE SortedOrders(_, _)
SortedOrders(mins, S) ==
    IF S = {} THEN {<<>>}
    ELSE UNION {{<<r>> \o rest : rest \in SortedOrders(mins, S \ {r})} :
                  r \in {q \in S : \A p \in S : mins[q] <= mins[p]}}

\* the rows in S by ascending mins as an insertion sort lists them: an index
\* moves only past strictly greater keys, so equal minima keep index order.
\* This is argsort() of a numpy build without a vectorized sort.
RECURSIVE StableOrder(_, _)
StableOrder(mins, S) ==
    IF S = {} THEN <<>>
    ELSE With(SetMin({q \in S : \A p \in S : mins[q] <= mins[p]}),
              LAMBDA r : <<r>> \o StableOrder(mins, S \ {r}))

\* 64-bit keys in one 512-bit register
Lanes == 8

\* the lane each lane is compared with in the steps of the bitonic network
Neighbour == <<2, 1, 4, 3, 6, 5, 8, 7>>
MirrorOfFour == <<4, 3, 2, 1, 8, 7, 6, 5>>
MirrorOfEight == <<8, 7, 6, 5, 4, 3, 2, 1>>
SecondNeighbour == <<3, 4, 1, 2, 7, 8, 5, 6>>

\* one compare-exchange step: the lanes in high end with the greater key of
\* their pair, the others with the smaller, each with the row that goes with
\* it; on equal keys a lane keeps its own
cmp_merge(zmm, partner, high) ==
    [i \in 1..Lanes |->
        IF i \in high
        THEN IF zmm[partner[i]].key > zmm[i].key THEN zmm[partner[i]] ELSE zmm[i]
        ELSE IF zmm[partner[i]].key < zmm[i].key THEN zmm[partner[i]] ELSE zmm[i]]

\* the six steps that sort one register
sort_zmm_64bit(zmm) ==
    With(cmp_merge(zmm, Neighbour, {2, 4, 6, 8}), LAMBDA z1 :
    With(cmp_merge(z1, MirrorOfFour, {3, 4, 7, 8}), LAMBDA z2 :
    With(cmp_merge(z2, Neighbour, {2, 4, 6, 8}), LAMBDA z3 :
    With(cmp_merge(z3, MirrorOfEight, {5, 6, 7, 8}), LAMBDA z4 :
    With(cmp_merge(z4, SecondNeighbour, {3, 4, 7, 8}), LAMBDA z5 :
         cmp_merge(z5, Neighbour, {2, 4, 6, 8}))))))

\* argsort() of at most Lanes keys on a numpy build that sorts with the
\* vectorized network (numpy 1.25 or later on a CPU with AVX-512): the keys
\* are loaded with their rows, the free lanes hold a key above all others
NetworkOrder(mins) ==
    With(1 + CHOOSE m \in {mins[r] : r \in DOMAIN mins} :
                 \A r \in DOMAIN mins : mins[r] <= m,
         LAMBDA top :
    With(sort_zmm_64bit([i \in 1..Lanes |->
                           IF i <= Len(mins) THEN [key |-> mins[i], row |-> i]
                           ELSE [key |-> top, row |-> 0]]),
         LAMBDA zmm : [i \in 1..Len(mins) |-> zmm[i].row]))

\* distances.min(axis=1).argsort(): no kind is asked for, so numpy's default
\* sort runs, which is not stable, and how rows with equal minima come out
\* depends on the numpy build: in index order where it sorts by insertion,
\* as the network leaves them where it sorts with vector instructions. With
\* more rows than one register holds any order of equal minima is allowed.
ArgSortMin(distances) ==
    With([r \in DOMAIN distances |-> RowMin(distances, r)],
         LAMBDA mins : IF Len(distances) <= Lanes
                       THEN {StableOrder(mins, DOMAIN distances),
                             NetworkOrder(mins)}
                       ELSE SortedOrders(mins, DOMAIN distances))

\* the test as it would be with >=, and with no distance limit at all
TooFarAtLimit(d2) == d2 >= max_distance * max_distance

NeverTooFar(d2) == FALSE

\* distances[row, col] > self.max_distance
TooFar(d2) == d2 > max_distance * max_distance

\* the loop body as it would be without the test on assigned_cols
AssignOneIgnoringCols(m, object_ids, distances, rs, row, col) ==
    IF row \in m.assigned_rows THEN m
    ELSE IF TooFar(distances[row][col]) THEN m
    ELSE [self |-> [m.self EXCEPT
                      !.objects = SetItem(@, object_ids[row], rs[col]),
                      !.disappeared[object_ids[row]] = 0],
          assigned_rows |-> m.assigned_rows \cup {row},
          assigned_cols |-> m.assigned_cols \cup {col}]

\* the loop body as it would be without the reset of the count
AssignOneKeepCount(m, object_ids, distances, rs, row, col) ==
    IF row \in m.assigned_rows \/ col \in m.assigned_cols THEN m
    ELSE IF TooFar(distances[row][col]) THEN m
    ELSE [self |-> [m.self EXCEPT
                      !.objects = SetItem(@, object_ids[row], rs[col])],
          assigned_rows |-> m.assigned_rows \cup {row},
          assigned_cols |-> m.assigned_cols \cup {col}]

\* one pass of the loop over zip(rows, cols): lines 53-63
AssignOne(m, object_ids, distances, rs, row, col) ==
    IF row \in m.assigned_rows \/ col \in m.assigned_cols THEN m
    ELSE IF TooFar(distances[row][col]) THEN m
    ELSE [self |-> [m.self EXCEPT
                      !.objects = SetItem(@, object_ids[row], rs[col]),
                      !.disappeared[object_ids[row]] = 0],
          assigned_rows |-> m.assigned_rows \cup {row},
          assigned_cols |-> m.assigned_cols \cup {col}]

\* the loop over zip(rows, cols), from position k on
RECURSIVE Assign(_, _, _, _, _, _)
Assign(m, object_ids, distances, rs, rows, k) ==
    IF k > Len(rows) THEN m
    ELSE With(AssignOne(m, object_ids, distances, rs, rows[k],
                        ArgMin(distances, rows[k])),
              LAMBDA v : Assign(v, object_ids, distances, rs, rows, k + 1))

\* the elements of S in increasing order
RECURSIVE Ascending(_)
Ascending(S) ==
    IF S = {} THEN <<>> ELSE <<SetMin(S)>> \o Ascending(S \ {SetMin(S)})

\* every order in which the elements of S can be listed
RECURSIVE Orders(_)
Orders(S) ==
    IF S = {} THEN {<<>>}
    ELSE UNION {{<<v>> \o rest : rest \in Orders(S \ {v})} : v \in S}

\* a Python set of ints keeps each int below its smallest table size, 8, in
\* the slot of its own value, so iterating it yields them in increasing order
SmallIntLimit == 8

\* the orders a for loop over a set drawn from range(n) may be given: one
\* per way of listing the positions 1..n (an index i is position i + 1)
VisitOrders(n) ==
    IF n <= SmallIntLimit THEN {Ascending(1..n)} ELSE Orders(1..n)

\* the order in which a for loop over the set S of positions visits them:
\* increasing while every index is below 8, as order lists them otherwise
Visit(order, S) ==
    IF \A v \in S : v <= SmallIntLimit THEN Ascending(S)
    ELSE SelectSeq(order, LAMBDA v : v \in S)

Distances(self, rs) ==
    pairwise_distances(compute_centroids(Values(self.objects)),
                       compute_centroids(rs))

\* the row orders argsort may return for this call
RowOrders(self, rs) ==
    IF Len(rs) = 0 \/ Len(self.objects) = 0 THEN {<<>>}
    ELSE With(Distances(self, rs), LAMBDA d : ArgSortMin(d))

\* items of seq at the positions in S, in the order a for loop over S visits
Pick(seq, S, order) ==
    With(Visit(order, S), LAMBDA v : [i \in 1..Len(v) |-> seq[v[i]]])

\* the end of update as it would be without registering unassigned columns
FinishWithoutRegister(m, object_ids, rs, row_order, col_order) ==
    MarkAll(m.self, Pick(object_ids, (1..Len(object_ids)) \ m.assigned_rows,
                         row_order))

\* lines 65-76: age the unassigned rows, then register the unassigned columns
Finish(m, object_ids, rs, row_order, col_order) ==
    RegisterAll(
        MarkAll(m.self, Pick(object_ids, (1..Len(object_ids)) \ m.assigned_rows,
                             row_order)),
        Pick(rs, (1..Len(rs)) \ m.assigned_cols, col_order))

\* CentroidTracker.update(rects), with rows the outcome of the argsort and
\* row_order, col_order the orders the two set loops are given: the tracker
\* after the call and the ids whose rows were assigned
update(self, rs, rows, row_order, col_order) ==
    IF Len(rs) = 0
    THEN [self |-> MarkAll(self, Keys(self.objects)), assigned |-> {}]
    ELSE IF Len(self.objects) = 0
    THEN [self |-> RegisterAll(self, rs), assigned |-> {}]
    ELSE With(Distances(self, rs),
              LAMBDA d :
                With(Assign([self |-> self, assigned_rows |-> {},
                             assigned_cols |-> {}],
                            Keys(self.objects), d, rs, rows, 1),
                     LAMBDA m :
                       [self |-> Finish(m, Keys(self.objects), rs,
                                        row_order, col_order),
                        assigned |-> {Keys(self.objects)[r] :
                                        r \in m.assigned_rows}]))

\* the tracker's fields after an update call with outcome `after`; a call
\* that runs alone leaves both dictionaries with the same keys in one order
Store(after) ==
    /\ next_object_id' = after.self.next_object_id
    /\ objects' = after.self.objects
    /\ disappeared' = after.self.disappeared
    /\ dis_keys' = Keys(after.self.objects)
    /\ matched' = after.assigned
    /\ live_before' = Len(objects)

----------------------------------------------------------------------------
(* VisionSystem *)

Max(a, b) == IF a >= b THEN a ELSE b

\* raw detections, in pixels before clamping
DNeg == <<-5, 103, 50, 50>>    \* starts left of the frame
DOut == <<700, 100, 50, 0>>    \* starts right of the frame, no height

Frames == {<<>>, <<R1>>, <<R2>>, <<DNeg>>, <<DOut>>}

\* _bbox_from_detection: the origin is clamped at 0, the size is not
bbox_from_detection(det) == <<Max(det[1], 0), Max(det[2], 0), det[3], det[4]>>

Boxes(f) == [i \in 1..Len(f) |-> bbox_from_detection(f[i])]

\* lines 119-120
Clamp(rect) == <<Max(rect[1], 0), Max(rect[2], 0), Max(rect[3], 1), Max(rect[4], 1)>>

\* face_roi.size > 0 for frame[y : y + h, x : x + w] with w, h >= 1
RoiNonEmpty(b) == b[1] < FrameW /\ b[2] < FrameH

\* self.frame_count % self.emotion_every == 0
Sampling(count) == count % emotion_every = 0

Sentinel == <<"neutral", 0>>

\* what detector.detect_emotions may do: raise, find no face, or give the
\* scores (in percent) of the first face it found, as the (label, score)
\* items of that dict in the dict's own order
DetectorOutcomes ==
    {[kind |-> "raises", emotions |-> <<>>],
     [kind |-> "empty", emotions |-> <<>>],
     [kind |-> "found", emotions |-> <<>>],
     [kind |-> "found",
      emotions |-> <<<<"sad", 10>>, <<"happy", 90>>, <<"neutral", 90>>>>]}

\* max(emotions, key=emotions.get) with its score: of the items no other
\* outscores, the one that comes first in the dict
MaxEmotion(emotions) ==
    emotions[CHOOSE i \in 1..Len(emotions) :
               /\ \A k \in 1..Len(emotions) : emotions[i][2] >= emotions[k][2]
               /\ \A k \in 1..(i - 1) : emotions[k][2] < emotions[i][2]]

\* predict as it would be without the try/except around the detector
PredictUnguarded(has_detector, outcome) ==
    IF ~has_detector THEN [raised |-> FALSE, value |-> Sentinel]
    ELSE IF outcome.kind = "raises" \/ (outcome.kind = "found"
                                        /\ outcome.emotions = <<>>)
    THEN [raised |-> TRUE, value |-> Sentinel]
    ELSE IF outcome.kind = "empty" THEN [raised |-> FALSE, value |-> Sentinel]
    ELSE [raised |-> FALSE, value |-> MaxEmotion(outcome.emotions)]

\* EmotionRecognizer.predict: whether it raised, and the (label, confidence)
\* it returned; has_detector is self.detector is not None
predict(has_detector, outcome) ==
    IF ~has_detector THEN [raised |-> FALSE, value |-> Sentinel]
    ELSE IF outcome.kind = "found" /\ outcome.emotions # <<>>
    THEN [raised |-> FALSE, value |-> MaxEmotion(outcome.emotions)]
    ELSE [raised |-> FALSE, value |-> Sentinel]

\* what the call self.emotion.predict(face_roi) may come to
PredictOutcomes ==
    {predict(d, o) : d \in BOOLEAN, o \in DetectorOutcomes}

Result(person_id, b, e) ==
    [person_id |-> person_id, bbox |-> b, emotion |-> e[1], confidence |-> e[2]]

LogEntry(person_id, e) ==
    [person_id |-> person_id, emotion |-> e[1], confidence |-> e[2]]

\* the value of cur outside the loop
NoResult == Result(0, <<>>, Sentinel)

\* JSONResponse({"faces": data})
Json(data) == [status |-> "ok", faces |-> data]

\* what a request has come to when it carries no result list: not answered
\* yet, a stream under way, a stream the client left, or an error
Reply(status) == [status |-> status, faces |-> <<>>]

----------------------------------------------------------------------------
(* tracker.update as the steps of one thread among several *)

\* one step of an update call that is still to come:
\*   "set"      lines 58-60  objects[id] = rect, disappeared[id] = 0
\*   "age"      lines 31-32 and 68-69  disappeared[id] += 1 and the test
\*   "pop_obj"  line 23      objects.pop(id, None)
\*   "pop_dis"  line 24      disappeared.pop(id, None)
\*   "reg"      lines 18-20  register(rect)
\*   "crash"    an IndexError of object_ids[row]
Op(kind, id, rect) == [kind |-> kind, id |-> id, rect |-> rect]

\* lines 30-33 for the keys the call read at line 30
AgeOps(ids) ==
    IF ids = <<>> THEN <<>>
    ELSE [i \in 1..Len(ids) |-> Op("age", ids[i], <<>>)]

\* the calls of register for the boxes rs, in their order
RegOps(rs) ==
    IF rs = <<>> THEN <<>>
    ELSE [i \in 1..Len(rs) |-> Op("reg", 0, rs[i])]

\* lines 66-70 for the unassigned rows urows: object_ids[row] raises for a
\* row the keys read at line 41 do not reach
RECURSIVE AgeRowOps(_, _)
AgeRowOps(ids, urows) ==
    IF urows = <<>> THEN <<>>
    ELSE IF Head(urows) > Len(ids) THEN <<Op("crash", 0, <<>>)>>
    ELSE <<Op("age", ids[Head(urows)], <<>>)>> \o AgeRowOps(ids, Tail(urows))

Crashes(ops) == \E i \in 1..Len(ops) : ops[i].kind = "crash"

\* the loop over zip(rows, cols) from position k on, lines 52-63, on the
\* call's own lists: the writes it will make and the rows and columns taken
RECURSIVE AssignOps(_, _, _, _, _, _)
AssignOps(m, ids, distances, rs, rows, k) ==
    IF k > Len(rows) THEN m
    ELSE With(ArgMin(distances, rows[k]),
              LAMBDA col :
                IF rows[k] \in m.assigned_rows \/ col \in m.assigned_cols
                THEN AssignOps(m, ids, distances, rs, rows, k + 1)
                ELSE IF TooFar(distances[rows[k]][col])
                THEN AssignOps(m, ids, distances, rs, rows, k + 1)
                ELSE IF rows[k] > Len(ids)
                THEN [m EXCEPT !.ops = Append(@, Op("crash", 0, <<>>))]
                ELSE AssignOps(
                       [ops |-> Append(m.ops, Op("set", ids[rows[k]], rs[col])),
                        assigned_rows |-> m.assigned_rows \cup {rows[k]},
                        assigned_cols |-> m.assigned_cols \cup {col}],
                       ids, distances, rs, rows, k + 1))

\* lines 43-74 for a call that read the keys ids at line 41 and the boxes
\* vals at line 42: everything from there on depends on these lists only
PlanUpdate(ids, vals, rs, rows, row_order, col_order) ==
    With(AssignOps([ops |-> <<>>, assigned_rows |-> {}, assigned_cols |-> {}],
                   ids,
                   pairwise_distances(compute_centroids(vals),
                                      compute_centroids(rs)),
                   rs, rows, 1),
         LAMBDA m :
           IF Crashes(m.ops) THEN m.ops
           ELSE With(m.ops \o AgeRowOps(ids, Visit(row_order,
                                   (1..Len(vals)) \ m.assigned_rows)),
                     LAMBDA ops :
                       IF Crashes(ops) THEN ops
                       ELSE ops \o RegOps(Pick(rs, (1..Len(rs)) \ m.assigned_cols,
                                               col_order))))

----------------------------------------------------------------------------
(* The handlers of main.py and the threads that run them *)

Api == "api"

StreamNames == <<"stream", "stream2", "stream3">>

MaxStreams == 1           \* clients of /video at one time

Streams == {StreamNames[i] : i \in 1..MaxStreams}

Consumers == Streams \cup {Api}

\* is_open as it would be if it did not ask the capture device
OpenUnchecked == TRUE

\* VisionSystem.is_open
is_open == cap_opened

\* c has read a frame and not yet counted the tick
Uncounted(c) == pc[c] \in {"update", "keys", "vals", "plan", "count"}

\* c is inside process_frame past the frame read
InTick(c) == Uncounted(c) \/ pc[c] \in {"iter", "test", "log", "fetch"}

Init ==
    /\ next_object_id = 0
    /\ objects = <<>>
    /\ disappeared = <<>>
    /\ dis_keys = <<>>
    /\ rects = <<>>
    /\ live_before = 0
    /\ matched = {}
    /\ cap_opened \in BOOLEAN
    /\ frame_count = 0
    /\ latest_data = <<>>
    /\ logs = <<>>
    /\ published = FALSE
    /\ pc = [c \in Consumers |-> "idle"]
    /\ ctx = [c \in Consumers |-> "none"]
    /\ frame = [c \in Consumers |-> <<>>]
    /\ snap_ids = [c \in Consumers |-> <<>>]
    /\ plan = [c \in Consumers |-> <<>>]
    /\ results = [c \in Consumers |-> <<>>]
    /\ it_keys = [c \in Consumers |-> <<>>]
    /\ stale = [c \in Consumers |-> FALSE]
    /\ cur = [c \in Consumers |-> NoResult]
    /\ tracked = [c \in Consumers |-> <<>>]
    /\ response = [c \in Consumers |-> Reply("none")]

\* the locals of a process_frame call that has ended, with kept what its
\* caller still holds of the list it returned
Forget(c, kept) ==
    /\ frame' = [frame EXCEPT ![c] = <<>>]
    /\ snap_ids' = [snap_ids EXCEPT ![c] = <<>>]
    /\ plan' = [plan EXCEPT ![c] = <<>>]
    /\ results' = [results EXCEPT ![c] = kept]
    /\ it_keys' = [it_keys EXCEPT ![c] = <<>>]
    /\ stale' = [stale EXCEPT ![c] = FALSE]
    /\ cur' = [cur EXCEPT ![c] = NoResult]
    /\ tracked' = [tracked EXCEPT ![c] = <<>>]

DropLocals(c) == Forget(c, <<>>)

\* the handler of c answers r, which ends the request
Answer(c, r) ==
    /\ pc' = [pc EXCEPT ![c] = "done"]
    /\ ctx' = [ctx EXCEPT ![c] = "none"]
    /\ response' = [response EXCEPT ![c] = r]

\* c enters process_frame from call site site
Call(c, site) ==
    /\ pc' = [pc EXCEPT ![c] = "read"]
    /\ ctx' = [ctx EXCEPT ![c] = site]
    /\ UNCHANGED response

\* api_frame from line 73 on, once get_latest_data has returned data
AfterGetLatest(data) ==
    IF data = <<>> THEN Call(Api, "fallback") ELSE Answer(Api, Json(data))

\* GET /video: main.py lines 41-61; every client gets a generator of its own
VideoRequest(s) ==
    /\ pc[s] = "idle"
    /\ IF is_open
       THEN /\ pc' = [pc EXCEPT ![s] = "read"]
            /\ ctx' = [ctx EXCEPT ![s] = "stream"]
            /\ response' = [response EXCEPT ![s] = Reply("streaming")]
       ELSE Answer(s, Reply("camera_error"))
    /\ UNCHANGED <<tracker_vars, vision_vars, locals>>

\* the client of /video goes away between two frames
StreamClose(s) ==
    /\ pc[s] = "read"
    /\ Answer(s, Reply("closed"))
    /\ UNCHANGED <<tracker_vars, vision_vars, locals>>

\* GET /api/frame up to the call of get_latest_data: main.py lines 65-71
ApiRequest ==
    /\ pc[Api] = "idle"
    /\ IF ~is_open THEN Answer(Api, Reply("camera_error"))
       ELSE /\ pc' = [pc EXCEPT ![Api] = "get"]
            /\ UNCHANGED <<ctx, response>>
    /\ UNCHANGED <<tracker_vars, vision_vars, locals>>

\* get_latest_data line 152 and, with a snapshot that is not empty, line 158
\* and main.py lines 73-79: no call stands between the test and the return
GetLatest ==
    /\ pc[Api] = "get"
    /\ IF latest_data = <<>> THEN Call(Api, "warm")
       ELSE Answer(Api, Json(latest_data))
    /\ UNCHANGED <<tracker_vars, vision_vars, locals>>

\* get_latest_data line 158 after its process_frame call has returned or
\* its RuntimeError has been passed over, then main.py lines 73-79
ReturnLatest ==
    /\ pc[Api] \in {"warmed", "except"}
    /\ AfterGetLatest(latest_data)
    /\ DropLocals(Api)
    /\ UNCHANGED <<tracker_vars, vision_vars>>

\* a RuntimeError raised at lines 103 or 108 reaches the caller's except
Raise(c) ==
    /\ DropLocals(c)
    /\ IF ctx[c] = "warm"
       THEN /\ pc' = [pc EXCEPT ![c] = "except"]
            /\ UNCHANGED <<ctx, response>>
       ELSE Answer(c, Reply("runtime_error"))

\* the RuntimeError of the for statement reaches the caller's except, and
\* get_latest_data goes on to line 158 with no call in between
RaiseInLoop(c) ==
    /\ DropLocals(c)
    /\ IF ctx[c] = "warm" THEN AfterGetLatest(latest_data)
       ELSE Answer(c, Reply("runtime_error"))

\* an exception no caller catches (KeyError, IndexError) ends the request
Crash(c) ==
    /\ DropLocals(c)
    /\ Answer(c, Reply("crash"))

\* boxes of the frames read by calls whose update has yet to register them
RECURSIVE Pending(_)
Pending(S) ==
    IF S = {} THEN 0
    ELSE With(CHOOSE d \in S : TRUE,
              LAMBDA d : Len(frame[d]) + Pending(S \ {d}))

\* process_frame lines 102-111: is_open, cap.read and the detection
ReadFrame(c) ==
    /\ pc[c] = "read"
    /\ \/ /\ ~is_open
          /\ Raise(c)
       \/ /\ is_open
          /\ Raise(c)
       \/ /\ is_open
          /\ frame_count + Cardinality({d \in Consumers : Uncounted(d)}) < MaxTicks
          /\ \E f \in Frames :
                /\ next_object_id + Len(f) + Pending(Consumers) <= MaxId
                /\ frame' = [frame EXCEPT ![c] = f]
          /\ pc' = [pc EXCEPT ![c] = "update"]
          /\ UNCHANGED <<ctx, response, snap_ids, plan, results, it_keys,
                         stale, cur, tracked>>
    /\ UNCHANGED <<tracker_vars, vision_vars>>

\* what is left of c's update call is ops; with nothing left only the
\* return statement is, which the call reaches in its next step
Proceed(c, ops) ==
    /\ plan' = [plan EXCEPT ![c] = ops]
    /\ pc' = [pc EXCEPT ![c] = IF ops = <<>> THEN "count" ELSE "plan"]
    /\ UNCHANGED tracked

\* update lines 28-36: with no boxes the keys of disappeared are read, with
\* boxes the length of objects
UpdateEnter(c) ==
    /\ pc[c] = "update"
    /\ UNCHANGED <<tracker_vars, vision_vars, ctx, response, frame, snap_ids,
                   results, it_keys, stale, cur>>
    /\ IF frame[c] = <<>> THEN Proceed(c, AgeOps(dis_keys))
       ELSE IF Len(objects) = 0 THEN Proceed(c, RegOps(Boxes(frame[c])))
       ELSE /\ pc' = [pc EXCEPT ![c] = "keys"]
            /\ UNCHANGED <<plan, tracked>>

\* update line 41: object_ids = list(self.objects.keys())
ReadKeys(c) ==
    /\ pc[c] = "keys"
    /\ snap_ids' = [snap_ids EXCEPT ![c] = Keys(objects)]
    /\ pc' = [pc EXCEPT ![c] = "vals"]
    /\ UNCHANGED <<tracker_vars, vision_vars, ctx, response, frame, plan,
                   results, it_keys, stale, cur, tracked>>

\* update lines 42-47: list(self.objects.values()), the distances and the
\* argsort; with no box left _pairwise_distances raises IndexError
ReadValues(c) ==
    /\ pc[c] = "vals"
    /\ UNCHANGED <<tracker_vars, vision_vars>>
    /\ IF objects = <<>> THEN Crash(c)
       ELSE /\ \E rows \in ArgSortMin(pairwise_distances(
                               compute_centroids(Values(objects)),
                               compute_centroids(Boxes(frame[c])))),
                 row_order \in VisitOrders(Len(objects)),
                 col_order \in VisitOrders(Len(frame[c])) :
                   Proceed(c, PlanUpdate(snap_ids[c], Values(objects),
                                         Boxes(frame[c]), rows, row_order,
                                         col_order))
            /\ UNCHANGED <<ctx, response, frame, snap_ids, results, it_keys,
                           stale, cur>>

\* every for loop over tracker.objects that is under way sees it change size
Mutated == [d \in Consumers |-> stale[d] \/ pc[d] \in {"test", "log", "fetch"}]

\* the next step of c's update call
TrackerOp(c) ==
    /\ pc[c] = "plan"
    /\ UNCHANGED <<rects, live_before, matched, vision_vars>>
    /\ LET op == Head(plan[c])
           rest == Tail(plan[c])
       IN  IF op.kind = "crash" THEN
                /\ UNCHANGED <<next_object_id, objects, disappeared, dis_keys>>
                /\ Crash(c)
           ELSE IF op.kind = "age" /\ op.id \notin DOMAIN disappeared THEN
                \* KeyError of self.disappeared[object_id] += 1
                /\ UNCHANGED <<next_object_id, objects, disappeared, dis_keys>>
                /\ Crash(c)
           ELSE /\ UNCHANGED <<ctx, response, frame, snap_ids, results, it_keys,
                               cur>>
                /\ IF op.kind = "age" THEN
                        /\ disappeared' = [disappeared EXCEPT ![op.id] = @ + 1]
                        /\ UNCHANGED <<next_object_id, objects, dis_keys, stale>>
                        /\ Proceed(c, IF Expired(disappeared[op.id] + 1)
                                      THEN <<Op("pop_obj", op.id, <<>>),
                                             Op("pop_dis", op.id, <<>>)>> \o rest
                                      ELSE rest)
                   ELSE IF op.kind = "pop_obj" THEN
                        /\ objects' = Pop(objects, op.id)
                        /\ stale' = IF op.id \in KeySet(objects)
                                    THEN Mutated ELSE stale
                        /\ UNCHANGED <<next_object_id, disappeared, dis_keys>>
                        /\ Proceed(c, rest)
                   ELSE IF op.kind = "pop_dis" THEN
                        /\ disappeared' = [k \in DOMAIN disappeared \ {op.id} |->
                                             disappeared[k]]
                        /\ dis_keys' = SelectSeq(dis_keys, LAMBDA k : k # op.id)
                        /\ UNCHANGED <<next_object_id, objects, stale>>
                        /\ Proceed(c, rest)
                   ELSE IF op.kind = "set" THEN
                        /\ objects' = SetItem(objects, op.id, op.rect)
                        /\ disappeared' =
                             [k \in DOMAIN disappeared \cup {op.id} |->
                                IF k = op.id THEN 0 ELSE disappeared[k]]
                        /\ dis_keys' = IF op.id \in DOMAIN disappeared
                                       THEN dis_keys ELSE Append(dis_keys, op.id)
                        /\ stale' = IF op.id \in KeySet(objects)
                                    THEN stale ELSE Mutated
                        /\ UNCHANGED next_object_id
                        /\ Proceed(c, rest)
                   ELSE \* "reg"
                        /\ next_object_id' = register(Self, op.rect).next_object_id
                        /\ objects' = register(Self, op.rect).objects
                        /\ disappeared' = register(Self, op.rect).disappeared
                        /\ dis_keys' = Append(dis_keys, next_object_id)
                        /\ stale' = Mutated
                        /\ Proceed(c, rest)

\* update's return self.objects (tracker.py lines 34, 39, 76), which hands
\* over the mapping as it then is, and process_frame lines 113-116: the
\* return of a Python function gives no other thread a turn before
\* self.frame_count += 1
Count(c) ==
    /\ pc[c] = "count"
    /\ tracked' = [tracked EXCEPT ![c] = objects]
    /\ frame_count' = frame_count + 1
    /\ pc' = [pc EXCEPT ![c] = "iter"]
    /\ UNCHANGED <<tracker_vars, cap_opened, latest_data, logs, published,
                   ctx, response, frame, snap_ids, plan, results, it_keys,
                   stale, cur>>

\* lines 147-149 and the caller's use of what process_frame returned: the
\* stream yields and calls again, api_frame answers, get_latest_data has
\* yet to read self.latest_data
Publish(c) ==
    /\ latest_data' = results[c]
    /\ published' = TRUE
    /\ IF ctx[c] = "stream" THEN DropLocals(c) /\ Call(c, "stream")
       ELSE IF ctx[c] = "warm"
       THEN /\ Forget(c, results[c])
            /\ pc' = [pc EXCEPT ![c] = "warmed"]
            /\ UNCHANGED <<ctx, response>>
       ELSE DropLocals(c) /\ Answer(c, Json(results[c]))

\* the item of the for statement at key person_id: lines 117-121
Fetch(c, person_id) ==
    /\ cur' = [cur EXCEPT ![c] = Result(person_id,
                                        Clamp(Item(objects, person_id)),
                                        Sentinel)]
    /\ pc' = [pc EXCEPT ![c] = "test"]

\* line 117: the iterator over tracked.items() is made and gives its first
\* item; over an empty mapping the loop is over and line 147 follows
StartLoop(c) ==
    /\ pc[c] = "iter"
    /\ UNCHANGED <<tracker_vars, cap_opened, frame_count, logs>>
    /\ IF objects = <<>> THEN Publish(c)
       ELSE /\ it_keys' = [it_keys EXCEPT ![c] = Keys(objects)]
            /\ stale' = [stale EXCEPT ![c] = FALSE]
            /\ Fetch(c, objects[1].id)
            /\ UNCHANGED <<latest_data, published, ctx, response, frame,
                           snap_ids, plan, results, tracked>>

\* line 122 and, where the classifier is due, lines 123-125; otherwise the
\* pass ends with the sentinel, lines 127-145
Test(c) ==
    /\ pc[c] = "test"
    /\ UNCHANGED <<tracker_vars, vision_vars>>
    /\ IF Sampling(frame_count) /\ RoiNonEmpty(cur[c].bbox)
       THEN \E e \in PredictOutcomes :
              IF e.raised
              THEN \* an exception of predict leaves process_frame
                   Crash(c)
              ELSE /\ cur' = [cur EXCEPT ![c] = Result(@.person_id, @.bbox,
                                                       e.value)]
                   /\ pc' = [pc EXCEPT ![c] = "log"]
                   /\ UNCHANGED <<ctx, response, frame, snap_ids, plan,
                                  results, it_keys, stale, tracked>>
       ELSE /\ results' = [results EXCEPT ![c] = Append(@, cur[c])]
            /\ pc' = [pc EXCEPT ![c] = "fetch"]
            /\ UNCHANGED <<ctx, response, frame, snap_ids, plan, it_keys,
                           stale, cur, tracked>>

\* line 126 and the rest of the pass, lines 127-145
Log(c) ==
    /\ pc[c] = "log"
    /\ logs' = Append(logs, LogEntry(cur[c].person_id,
                                     <<cur[c].emotion, cur[c].confidence>>))
    /\ results' = [results EXCEPT ![c] = Append(@, cur[c])]
    /\ pc' = [pc EXCEPT ![c] = "fetch"]
    /\ UNCHANGED <<tracker_vars, cap_opened, frame_count, latest_data,
                   published, ctx, response, frame, snap_ids, plan, it_keys,
                   stale, cur, tracked>>

\* the for statement asks for its next item: with none left line 147
\* follows, after a change of the keys it raises RuntimeError
NextItem(c) ==
    /\ pc[c] = "fetch"
    /\ UNCHANGED <<tracker_vars, cap_opened, frame_count, logs>>
    /\ IF Len(results[c]) = Len(it_keys[c]) THEN Publish(c)
       ELSE IF stale[c]
       THEN /\ RaiseInLoop(c)
            /\ UNCHANGED <<latest_data, published>>
       ELSE /\ Fetch(c, it_keys[c][Len(results[c]) + 1])
            /\ UNCHANGED <<latest_data, published, ctx, response, frame,
                           snap_ids, plan, results, it_keys, stale, tracked>>

\* the client has its answer; the consumer is free for the next request
Done(c) ==
    /\ pc[c] = "done"
    /\ pc' = [pc EXCEPT ![c] = "idle"]
    /\ response' = [response EXCEPT ![c] = Reply("none")]
    /\ UNCHANGED <<tracker_vars, vision_vars, ctx, locals>>

\* VisionSystem.shutdown on the application's shutdown event
Shutdown ==
    /\ cap_opened
    /\ cap_opened' = FALSE
    /\ UNCHANGED <<tracker_vars, frame_count, latest_data, logs, published,
                   consumer_vars>>

Next ==
    \/ \E s \in Streams : VideoRequest(s)
    \/ \E s \in Streams : StreamClose(s)
    \/ ApiRequest
    \/ GetLatest
    \/ ReturnLatest
    \/ \E c \in Consumers : ReadFrame(c)
    \/ \E c \in Consumers : UpdateEnter(c)
    \/ \E c \in Consumers : ReadKeys(c)
    \/ \E c \in Consumers : ReadValues(c)
    \/ \E c \in Consumers : TrackerOp(c)
    \/ \E c \in Consumers : Count(c)
    \/ \E c \in Consumers : StartLoop(c)
    \/ \E c \in Consumers : Test(c)
    \/ \E c \in Consumers : Log(c)
    \/ \E c \in Consumers : NextItem(c)
    \/ \E c \in Consumers : Done(c)
    \/ Shutdown

Spec == Init /\ [][Next]_vars

----------------------------------------------------------------------------
(* The tracker driven on its own: any sequence of update calls *)

UpdateCall ==
    /\ \E rs \in RectLists :
          /\ next_object_id + Len(rs) <= MaxId
          /\ \E rows \in RowOrders(Self, rs),
                row_order \in VisitOrders(Len(objects)),
                col_order \in VisitOrders(Len(rs)) :
                  Store(update(Self, rs, rows, row_order, col_order))
          /\ rects' = rs
    /\ UNCHANGED <<vision_vars, consumer_vars>>

TrackerInit == Init /\ cap_opened

TrackerNext == UpdateCall

SpecTracker == TrackerInit /\ [][TrackerNext]_vars

----------------------------------------------------------------------------
(* Properties of CentroidTracker, checked under SpecTracker *)

Live == KeySet(objects)

\* the centroids of rects a and b are at most max_distance apart
Within(a, b) == Dist2(Centroid(a), Centroid(b)) <= max_distance * max_distance

\* C1: the ids registered by an update call are exactly the next unused ids,
\* next_object_id never goes back, and the live objects are kept in
\* ascending id order; so ids grow in registration order and no id, live or
\* deregistered, is handed out twice.
C1_IdsIncreaseNeverReused ==
    [][/\ next_object_id' >= next_object_id
       /\ KeySet(objects') \ Live = next_object_id .. (next_object_id' - 1)
       /\ \A i, j \in 1..Len(objects') :
            i < j => objects'[i].id < objects'[j].id
       /\ \A id \in KeySet(objects') : id < next_object_id']_vars

\* an object is registered after object 0 has been deregistered
C1_Witness ==
    /\ next_object_id >= 2
    /\ 0 \notin Live
    /\ (next_object_id - 1) \in Live
    /\ (next_object_id - 1) \notin matched
    /\ disappeared[next_object_id - 1] = 0
    /\ rects # <<>>

\* C2: after every update call the live objects are exactly those whose
\* disappeared count is at most max_disappeared: each live object has a count
\* in 0..max_disappeared, and the counts are kept for the live objects only.
C2_LiveIffWithinLimit ==
    /\ DOMAIN disappeared = Live
    /\ \A id \in Live : disappeared[id] \in 0..max_disappeared

\* one object sits at the limit while an earlier one has been dropped
C2_Witness ==
    /\ \E id \in Live : disappeared[id] = max_disappeared
    /\ \E id \in 0..(next_object_id - 1) : id \notin Live

\* C3: an update call with no detections on a tracker with live objects
\* raises every count by one, keeps exactly the objects whose new count is
\* within max_disappeared, keeps their boxes and order, and registers nothing.
C3_EmptyUpdateAgesAll ==
    [][(rects' = <<>> /\ objects # <<>>) =>
         /\ next_object_id' = next_object_id
         /\ objects' = SelectSeq(objects,
                LAMBDA o : disappeared[o.id] + 1 <= max_disappeared)
         /\ \A id \in KeySet(objects') : disappeared'[id] = disappeared[id] + 1]_vars

\* an empty update has aged a live object to the limit and another is gone
C3_Witness ==
    /\ rects = <<>>
    /\ live_before >= 2
    /\ Len(objects) < live_before
    /\ \E id \in Live : disappeared[id] = max_disappeared

\* C4: k detections given to a tracker with no live objects register exactly
\* k objects, in detection order, with the ids next_object_id,
\* next_object_id + 1, ..., each with count 0 and the detection as its box.
C4_EmptyTrackerRegistersAll ==
    [][objects = <<>> =>
         /\ next_object_id' = next_object_id + Len(rects')
         /\ objects' = [i \in 1..Len(rects') |->
                          [id |-> next_object_id + i - 1, rect |-> rects'[i]]]
         /\ disappeared' = [id \in KeySet(objects') |-> 0]]_vars

\* two detections registered on a tracker emptied by deregistration
C4_Witness ==
    /\ live_before = 0
    /\ Len(rects) = 2
    /\ rects[1] # rects[2]
    /\ next_object_id >= 3
    /\ Len(objects) = 2

\* the detections rs each lie within max_distance of exactly one object of
\* objs, and no two of them of the same object
SmallMotion(objs, rs) ==
    /\ rs # <<>>
    /\ \A j \in 1..Len(rs) :
          Cardinality({i \in 1..Len(objs) : Within(objs[i].rect, rs[j])}) = 1
    /\ \A j, k \in 1..Len(rs) :
          j # k => ~\E i \in 1..Len(objs) :
                      Within(objs[i].rect, rs[j]) /\ Within(objs[i].rect, rs[k])

\* C5 as stated: under small motion the set of ids after the call is the set
\* of ids before it.
C5_AsStated ==
    [][SmallMotion(objects, rects') => KeySet(objects') = Live]_vars

\* C5 amended: under small motion no id is registered, every object with a
\* detection within max_distance keeps its id, takes that detection as its
\* box and has count 0; an object with no detection within max_distance is
\* aged by one and is dropped exactly when its count was max_disappeared.
C5_SmallMotionKeepsMatchedIds ==
    [][SmallMotion(objects, rects') =>
         /\ next_object_id' = next_object_id
         /\ KeySet(objects') \subseteq Live
         /\ \A i \in 1..Len(objects) :
              LET o == objects[i]
                  near == {j \in 1..Len(rects') : Within(o.rect, rects'[j])}
              IN  IF near # {}
                  THEN /\ o.id \in KeySet(objects')
                       /\ \E j \in near : Item(objects', o.id) = rects'[j]
                       /\ disappeared'[o.id] = 0
                  ELSE /\ o.id \in KeySet(objects')
                            <=> disappeared[o.id] < max_disappeared
                       /\ o.id \in KeySet(objects') =>
                            /\ Item(objects', o.id) = o.rect
                            /\ disappeared'[o.id] = disappeared[o.id] + 1]_vars

\* object 1 has followed its detection while object 0, far away, was dropped
C5_Witness ==
    /\ live_before = 2
    /\ next_object_id = 2
    /\ Live = {1}
    /\ matched = {1}
    /\ rects = <<Item(objects, 1)>>

\* C6: with one live object and one detection the object is matched exactly
\* when the centroids are at most max_distance apart.  Matched: it takes the
\* detection as its box, its count is 0, no id is created.  Not matched: its
\* count goes up by one (and it is dropped if that passes max_disappeared)
\* and the detection is registered under the next id.  In every call, an
\* object whose box is replaced moved by at most max_distance.
C6_MatchWithinMaxDistance ==
    [][/\ (Len(objects) = 1 /\ Len(rects') = 1) =>
            LET o == objects[1]
                d == rects'[1]
            IN  IF Within(o.rect, d)
                THEN /\ objects' = <<[id |-> o.id, rect |-> d]>>
                     /\ disappeared' = [id \in {o.id} |-> 0]
                     /\ next_object_id' = next_object_id
                ELSE /\ next_object_id' = next_object_id + 1
                     /\ IF disappeared[o.id] + 1 > max_disappeared
                        THEN objects' = <<[id |-> next_object_id, rect |-> d]>>
                        ELSE /\ objects' = <<o, [id |-> next_object_id, rect |-> d]>>
                             /\ disappeared'[o.id] = disappeared[o.id] + 1
                     /\ disappeared'[next_object_id] = 0
       /\ \A id \in Live \cap KeySet(objects') :
            Item(objects', id) # Item(objects, id) =>
                /\ Within(Item(objects, id), Item(objects', id))
                /\ \E j \in 1..Len(rects') : rects'[j] = Item(objects', id)]_vars

\* the single object was not matched: it has aged and the detection, more
\* than max_distance away, has the next id
C6_Witness ==
    /\ live_before = 1
    /\ Len(rects) = 1
    /\ matched = {}
    /\ Len(objects) = 2
    /\ disappeared[objects[1].id] >= 1
    /\ objects[2].rect = rects[1]
    /\ ~Within(objects[1].rect, objects[2].rect)

\* C15: an object a call does not match has its count raised by one and
\* stays while the count is within max_disappeared, so it survives exactly
\* max_disappeared misses in a row and is gone at the next, for empty and
\* non-empty detection lists alike; a match puts the count back to 0, and a
\* newly registered object starts at 0.
C15_DroppedAfterLimitMisses ==
    [][/\ \A i \in 1..Len(objects) :
            LET id == objects[i].id
            IN  IF id \in matched'
                THEN id \in KeySet(objects') /\ disappeared'[id] = 0
                ELSE IF disappeared[id] < max_disappeared
                THEN /\ id \in KeySet(objects')
                     /\ disappeared'[id] = disappeared[id] + 1
                ELSE id \notin KeySet(objects')
       /\ \A id \in KeySet(objects') \ Live : disappeared'[id] = 0]_vars

\* the only object, already at the limit, missed a non-empty list and is
\* gone; the detection has the next id
C15_Witness ==
    /\ live_before = 1
    /\ Len(rects) = 1
    /\ matched = {}
    /\ next_object_id >= 2
    /\ objects = <<[id |-> next_object_id - 1, rect |-> rects[1]]>>

\* square of the distance between the centroids of rects a and b
Gap(a, b) == Dist2(Centroid(a), Centroid(b))

\* the squared distances from rect a to the detections of rs, from j on
RECURSIVE Gaps(_, _, _)
Gaps(a, rs, j) ==
    IF j > Len(rs) THEN <<>> ELSE <<Gap(a, rs[j])>> \o Gaps(a, rs, j + 1)

\* position of the first least entry of row
FirstMin(row) ==
    CHOOSE j \in 1..Len(row) :
        /\ \A k \in 1..Len(row) : row[j] <= row[k]
        /\ \A k \in 1..(j - 1) : row[j] < row[k]

\* for each object of objs, from position i on: the position n of its
\* nearest detection in rs and the squared distance g to it
RECURSIVE NearestAll(_, _, _)
NearestAll(objs, rs, i) ==
    IF i > Len(objs) THEN <<>>
    ELSE <<With(Gaps(objs[i].rect, rs, 1),
                LAMBDA row : With(FirstMin(row),
                                  LAMBDA n : [n |-> n, g |-> row[n]]))>>
         \o NearestAll(objs, rs, i + 1)

\* C16: with objects and detections both present, a matched object has taken
\* its nearest detection and no other; of the objects sharing a nearest
\* detection at most one is matched; the one strictly closest to it is
\* matched if within max_distance; and an object with a strictly closer rival
\* for its nearest detection is not matched at all: its box stays and its
\* count goes up by one (or it is dropped at the limit).
C16_NearestOnlyClosestFirst ==
    [][(objects # <<>> /\ rects' # <<>>) =>
         With(NearestAll(objects, rects', 1), LAMBDA near :
           \A i \in 1..Len(objects) :
              LET o == objects[i]
                  rivals == {j \in 1..Len(objects) :
                               j # i /\ near[j].n = near[i].n}
              IN  /\ o.id \in matched' =>
                       /\ Item(objects', o.id) = rects'[near[i].n]
                       /\ \A j \in rivals : objects[j].id \notin matched'
                  /\ (/\ near[i].g <= max_distance * max_distance
                      /\ \A j \in rivals : near[j].g > near[i].g)
                       => o.id \in matched'
                  /\ (\E j \in rivals : near[j].g < near[i].g)
                       => /\ o.id \notin matched'
                          /\ IF disappeared[o.id] < max_disappeared
                             THEN /\ Item(objects', o.id) = o.rect
                                  /\ disappeared'[o.id] = disappeared[o.id] + 1
                             ELSE o.id \notin KeySet(objects'))]_vars

\* two objects had the same nearest detection: the closer one took it, the
\* other has aged although the second detection, now registered under a new
\* id, is within max_distance of it
C16_Witness ==
    /\ live_before = 2
    /\ Len(rects) = 2
    /\ Len(objects) = 3
    /\ matched = {objects[1].id}
    /\ objects[1].rect = rects[1]
    /\ disappeared[objects[2].id] = 1
    /\ objects[3].id = next_object_id - 1
    /\ objects[3].rect = rects[2]
    /\ Within(objects[2].rect, rects[2])
    /\ Gap(objects[2].rect, rects[1]) < Gap(objects[2].rect, rects[2])

\* C17: when objects share their nearest detection at exactly the same
\* distance, within max_distance and with no closer rival, the one registered
\* first is matched to it and the others are not matched.
C17_FirstRegisteredWinsTie ==
    [][(objects # <<>> /\ rects' # <<>>) =>
         With(NearestAll(objects, rects', 1), LAMBDA near :
           \A i \in 1..Len(objects) :
              LET rivals == {j \in 1..Len(objects) :
                               j # i /\ near[j].n = near[i].n}
                  tied == {j \in rivals : near[j].g = near[i].g}
              IN  (/\ tied # {}
                   /\ \A j \in tied : i < j
                   /\ \A j \in rivals \ tied : near[j].g > near[i].g
                   /\ near[i].g <= max_distance * max_distance)
                    => /\ objects[i].id \in matched'
                       /\ \A j \in tied : objects[j].id \notin matched')]_vars

\* C18: with objects and detections both present, every object of before is
\* either matched (it holds a detection of the call, count 0) or not (box
\* unchanged, count one more, dropped if that passes max_disappeared); and
\* the detections no object took are exactly the boxes of the objects
\* registered by the call, which have the next ids and count 0.
C18_MatchedOrAgedRestRegistered ==
    [][(objects # <<>> /\ rects' # <<>>) =>
         LET new == KeySet(objects') \ Live
         IN  /\ \A i \in 1..Len(objects) :
                  LET o == objects[i]
                  IN  IF o.id \in matched'
                      THEN /\ o.id \in KeySet(objects')
                           /\ \E j \in 1..Len(rects') :
                                 Item(objects', o.id) = rects'[j]
                           /\ disappeared'[o.id] = 0
                      ELSE IF disappeared[o.id] + 1 > max_disappeared
                      THEN o.id \notin KeySet(objects')
                      ELSE /\ o.id \in KeySet(objects')
                           /\ Item(objects', o.id) = o.rect
                           /\ disappeared'[o.id] = disappeared[o.id] + 1
             /\ new = next_object_id .. (next_object_id' - 1)
             /\ Cardinality(new) = Len(rects') - Cardinality(matched')
             /\ \A id \in new : disappeared'[id] = 0
             /\ \A r \in {rects'[j] : j \in 1..Len(rects')} :
                  Cardinality({j \in 1..Len(rects') : rects'[j] = r})
                   = Cardinality({id \in matched' \cup new :
                                    Item(objects', id) = r})]_vars

\* of two objects one was matched and one, at the limit, was dropped, and
\* the second detection was registered
C18_Witness ==
    /\ live_before = 2
    /\ Len(rects) = 2
    /\ Cardinality(matched) = 1
    /\ Len(objects) = 2
    /\ objects[1].id \in matched
    /\ objects[2].id = next_object_id - 1
    /\ objects[2].id \notin matched
    /\ disappeared[objects[2].id] = 0

\* C20: after an update call with detections, each detection is the box of
\* a live object of its own with count 0, so that there are at least as
\* many live objects as detections.
C20_NoDetectionDropped ==
    rects # <<>> =>
        /\ Len(objects) >= Len(rects)
        /\ \A r \in {rects[j] : j \in 1..Len(rects)} :
              Cardinality({j \in 1..Len(rects) : rects[j] = r})
               <= Cardinality({i \in 1..Len(objects) :
                                 /\ objects[i].rect = r
                                 /\ disappeared[objects[i].id] = 0})

\* two equal detections: one went to the object that was there, the other
\* was registered, while a second object was left unmatched
C20_Witness ==
    /\ live_before = 2
    /\ Len(rects) = 2
    /\ rects[1] = rects[2]
    /\ Cardinality(matched) = 1
    /\ Len(objects) = 3
    /\ \E i \in 1..3 : disappeared[objects[i].id] >= 1

----------------------------------------------------------------------------
(* Properties of the frame pipeline and its consumers, checked under Spec *)

\* the ids and boxes a result list shows
Shown(data) == [i \in 1..Len(data) |-> [id |-> data[i].person_id,
                                        rect |-> data[i].bbox]]

\* the ids and boxes a tick publishes for the mapping objs
Expected(objs) == [i \in 1..Len(objs) |-> [id |-> objs[i].id,
                                           rect |-> Clamp(objs[i].rect)]]

\* the for loop of c's tick has no item left: c's next step is the store of
\* line 147
AtEnd(c) ==
    \/ pc[c] = "iter" /\ objects = <<>>
    \/ pc[c] = "fetch" /\ Len(results[c]) = Len(it_keys[c])

\* the keys c's for loop has gone through when it is at its end
Walked(c) == IF pc[c] = "iter" THEN <<>> ELSE it_keys[c]

\* C7: every loop pass that tests the tick count while it is not a multiple
\* of emotion_every ends with the sentinel as its result and writes no log
\* record, and every pass that tests it while it is a multiple goes on to
\* the classifier and appends exactly one log record, for its object.
C7_SamplingEveryNthTick ==
    [][\A c \in Consumers :
         /\ (pc[c] = "test" /\ pc'[c] # "test") =>
               IF Sampling(frame_count)
               THEN pc'[c] = "log"
               ELSE /\ results'[c] = Append(results[c], cur[c])
                    /\ cur[c].emotion = Sentinel[1]
                    /\ cur[c].confidence = Sentinel[2]
                    /\ logs' = logs
         /\ (pc[c] = "log" /\ pc'[c] # "log") =>
               /\ results'[c] = Append(results[c], cur[c])
               /\ logs' = Append(logs, LogEntry(cur[c].person_id,
                                    <<cur[c].emotion, cur[c].confidence>>))]_vars

\* C8: at no time are two consumers inside process_frame past the frame
\* read, so that no tick's update or result loop interleaves with another's.
C8_TicksSerialized ==
    Cardinality({c \in Consumers : InTick(c)}) <= 1

\* C9: whenever latest_data is replaced, it is by a tick at the end of its
\* loop, and the list stored shows exactly the objects and boxes of the
\* mapping as it stood when that tick's own update returned.
C9_SnapshotFromOneTick ==
    [][latest_data' # latest_data =>
         \E c \in Consumers :
            /\ AtEnd(c)
            /\ pc'[c] # pc[c]
            /\ latest_data' = results[c]
            /\ Shown(latest_data') = Expected(tracked[c])]_vars

\* C10: once a tick has published, get_latest_data called for a request to
\* /api/frame returns the stored list at once: the request is answered with
\* it, no tick is started, and tracker, tick count, Snapshot and log stay
\* as they are.
C10_GetLatestRunsNoTick ==
    [][(published /\ pc[Api] = "get" /\ pc'[Api] # "get") =>
         /\ pc'[Api] = "done"
         /\ response'[Api] = Json(latest_data)
         /\ UNCHANGED <<tracker_vars, vision_vars>>]_vars

\* C11: the tick a /api/frame request ran because no Snapshot existed is the
\* only tick of that request: once that tick has returned, the request is
\* answered with the list it built and process_frame is not entered again.
C11_OneTickPerRequest ==
    [][(pc[Api] = "warmed" /\ pc'[Api] # "warmed") =>
         /\ pc'[Api] = "done"
         /\ response'[Api] = Json(results[Api])]_vars

\* C12: a request to /video or /api/frame made while the camera is not open
\* is answered with the camera error at once: no stream is started, no part
\* of process_frame runs, and tracker, tick count, Snapshot and log stay as
\* they are.
C12_ClosedSourceReported ==
    [][\A c \in Consumers :
         (~cap_opened /\ pc[c] = "idle" /\ pc'[c] # "idle") =>
            /\ ~is_open
            /\ pc'[c] = "done"
            /\ response'[c].status = "camera_error"
            /\ UNCHANGED <<tracker_vars, vision_vars, locals>>]_vars

\* both endpoints have reported the closed camera and nothing has run
C12_Witness ==
    /\ ~cap_opened
    /\ \A c \in Consumers : pc[c] = "done" /\ response[c].status = "camera_error"
    /\ frame_count = 0
    /\ ~published

\* consumer c's process_frame call ends at the failed cap.read of an open
\* camera
ReadFailed(c) ==
    /\ pc[c] = "read"
    /\ cap_opened
    /\ pc'[c] \in {"done", "except"}
    /\ response'[c].status # "closed"

\* C13: a process_frame call whose read fails changes neither the tracker,
\* the tick count, the Snapshot nor the log, and the request it was made for
\* ends with the read error: at once, or as the next step of a caller that
\* has caught the error.
C13_ReadFailureSurfaced ==
    [][\A c \in Consumers :
         /\ ReadFailed(c) =>
               /\ pc'[c] = "except" \/ response'[c].status = "runtime_error"
               /\ UNCHANGED <<tracker_vars, vision_vars>>
         /\ (pc[c] = "except" /\ pc'[c] # "except") =>
               /\ pc'[c] = "done"
               /\ response'[c].status = "runtime_error"]_vars

\* C14: where predict has been called and its answer logged, predict raises
\* for no outcome of the detector and returns the sentinel when there is no
\* detector, when it raises and when it finds nothing; every loop pass that
\* has its item, calling predict or not, appends the result of its object
\* and stays in the loop, and the list a tick stores has one result for each
\* object the loop went through.
C14_ClassifierNeverAborts ==
    [][/\ logs' # logs =>
            \A d \in BOOLEAN, o \in DetectorOutcomes :
               /\ ~predict(d, o).raised
               /\ (~d \/ o.kind # "found" \/ o.emotions = <<>>)
                     => predict(d, o).value = Sentinel
       /\ \A c \in Consumers :
            /\ (pc[c] = "test" /\ pc'[c] # "test") =>
                  pc'[c] \in {"log", "fetch"}
            /\ (pc[c] \in {"test", "log"} /\ pc'[c] # pc[c]) =>
                  \/ pc'[c] = "log" /\ results'[c] = results[c]
                  \/ /\ pc'[c] = "fetch"
                     /\ Len(results'[c]) = Len(results[c]) + 1
                     /\ results'[c][Len(results'[c])].person_id
                           = it_keys[c][Len(results'[c])]
       /\ \A c \in Consumers :
            (AtEnd(c) /\ pc'[c] # pc[c]) =>
                /\ published'
                /\ Keys(Shown(latest_data')) = Walked(c)]_vars

\* a tick has gone through a sampling pass in which predict gave the
\* sentinel, logged it, and stored its list
C14_Witness ==
    /\ published
    /\ latest_data # <<>>
    /\ logs # <<>>
    /\ \E i \in 1..Len(latest_data) :
          /\ latest_data[i].emotion = Sentinel[1]
          /\ logs[Len(logs)] = LogEntry(latest_data[i].person_id, Sentinel)

\* C19: a tick that ends stores one result per object that was live in the
\* tracker when that tick's own update returned, in the tracker's order and
\* under the tracked ids, each bbox with x, y >= 0 and w, h >= 1; no step of
\* the loop and no store changes a box the tracker holds.
C19_OneResultPerLiveObject ==
    [][\A c \in Consumers :
         /\ (AtEnd(c) /\ pc'[c] # pc[c]) =>
                /\ latest_data' = results[c]
                /\ Keys(Shown(latest_data')) = Keys(tracked[c])
                /\ \A i \in 1..Len(latest_data') :
                      /\ latest_data'[i].bbox[1] >= 0
                      /\ latest_data'[i].bbox[2] >= 0
                      /\ latest_data'[i].bbox[3] >= 1
                      /\ latest_data'[i].bbox[4] >= 1
         /\ (pc[c] \in {"iter", "test", "log", "fetch"} /\ pc'[c] # pc[c]) =>
                objects' = objects]_vars

====
